---- MODULE Spec2Model ----
(***************************************************************************)
(* Model of the compliance cycle of coreason_constitution:                 *)
(*   ConstitutionalSystem.run_compliance_cycle (core.py),                   *)
(*   LegislativeArchive.get_laws (archive.py),                              *)
(*   compute_unified_diff (utils/diff.py).                                  *)
(* One invocation of run_compliance_cycle is followed from the binding of   *)
(* its arguments to the returned trace or the propagated exception.  The    *)
(* collaborators the engine is constructed with (sentinel, judge, revision  *)
(* engine, archive) answer from scripts fixed in the initial state, the way *)
(* the mocks of tests/test_core.py answer from side_effect lists.           *)
(***************************************************************************)
EXTENDS Integers, Sequences, FiniteSets, TLC

(* ---------------- bounds of the model ---------------- *)

\* largest max_retries a caller passes as a keyword
MaxRetriesArg == 1

\* number of scripted answers of the judge and of the revision engine
ScriptLen == 2

\* most context tags a query is given
MaxTags == 2

\* invocations of run_compliance_cycle that run on one engine at a time
NumInvocations == 2

\* longest rule list a Sentinel is constructed from
MaxRules == 2

\* most files a loaded directory holds
MaxFiles == 2

\* most calls of load_from_directory on one archive
MaxLoads == 2

(* ---------------- program constants ---------------- *)

\* ComplianceRequest.max_retries default, the retry budget of a call that names none
DefaultMaxRetries == 3

SENTINEL_BLOCK == "SENTINEL_BLOCK"

UnknownViolation == "Unknown Security Protocol Violation"

RevisionFailedMessage == "Error: Constitutional Revision failed. Content withheld."

(* ---------------- data ---------------- *)

\* Optional[...] values: None, or a present value
None == [given |-> FALSE]

Some(v) == [given |-> TRUE, value |-> v]

SeqToSet(s) == {s[i] : i \in 1..Len(s)}

\* Law(id, category, tags) of schema.py; text, severity and source play no part
Law(id, category, tags) == [id |-> id, category |-> category, tags |-> tags]

LawUniversal == Law("L1", "Universal", <<>>)

LawDomain == Law("L2", "Domain", <<"t1">>)

LawTenant == Law("L3", "Tenant", <<"t2", "t1">>)

\* contents of LegislativeArchive._laws after a load
Archives == {<<>>, <<LawUniversal, LawDomain>>, <<LawDomain, LawTenant, LawUniversal>>}

ContextTagInputs == {None, Some(<<>>), Some(<<"t1", "t1">>)}

Drafts == {"The sky is green", "Plan A",
           "Security Protocol Violation: SR.1. Request denied."}

\* Critique(violation, article_id, severity, reasoning)
Critique(violation, article_id, severity, reasoning) ==
    [violation |-> violation, article_id |-> article_id,
     severity |-> severity, reasoning |-> reasoning]

CritiqueCompliant == Critique(FALSE, "None", "Low", "Compliant")

CritiqueA == Critique(TRUE, "A", "High", "Violates A")

\* a critique that cites the id of LawDomain
CritiqueB == Critique(TRUE, "L2", "High", "Violates L2")

\* what one call of a collaborator does: return a value or raise
Returns(v) == [kind |-> "return", value |-> v]

Raises(cls, msg) == [kind |-> "raise", cls |-> cls, msg |-> msg]

\* Sentinel.check(input_prompt): returns None or raises SecurityException(msg)
SentinelOutcomes ==
    {Returns("None"),
     Raises("SecurityException", ""),
     Raises("SecurityException", "Security Protocol Violation: SR.1. Request denied.")}

\* archive.get_laws of the engine's archive: the real filter, or a raising store
ArchiveFailure == Raises("ValueError", "Corrupt Archive")

\* ConstitutionalJudge.evaluate as the engine sees it
JudgeOutcomes ==
    {Returns(CritiqueCompliant), Returns(CritiqueA), Returns(CritiqueB),
     Raises("Exception", "Judge Error")}

\* RevisionEngine.revise as the engine sees it
ReviseOutcomes ==
    {Returns("The sky is blue"), Returns(""), Returns("  "),
     Raises("Exception", "LLM Error"), Raises("BaseException", "Cancelled")}

Scripts(S) == [1..ScriptLen -> S]

\* str.strip() == "" on the texts of the model
IsBlank(s) == s \in {"", " ", "  "}

(* ---------------- state ---------------- *)

VARIABLES
    pc,              \* position of the invocation
    args,            \* arguments of the call
    sentinelScript,  \* outcome of sentinel.check(input_prompt)
    archiveLaws,     \* LegislativeArchive._laws
    archiveRaises,   \* the archive query raises
    judgeScript,     \* k-th answer of judge.evaluate
    reviseScript,    \* k-th answer of revision_engine.revise
    calls,           \* collaborator calls made so far, in order
    active_laws,     \* local of run_compliance_cycle
    critique,        \* local of run_compliance_cycle
    trace,           \* the returned ConstitutionalTrace
    error,           \* the exception that left run_compliance_cycle
    sentinelRulesArg, \* the rule list a Sentinel is constructed from
    sentinelActive,  \* the compiled rules the constructed Sentinel holds
    checkArgs,       \* content and user context of a Sentinel.check call
    checkOutcome,    \* what that call did
    archiveSentinelRules, \* LegislativeArchive._sentinel_rules
    archiveVersion,  \* LegislativeArchive._version
    loadArg,         \* the directory of the last load_from_directory call
    loadOutcome,     \* what that call did
    loadCount,       \* calls of load_from_directory so far
    reloadPc,        \* position of a load that runs beside a reader
    loadedLocals,    \* loaded_laws and loaded_sentinel_rules of that load
    preLoad,         \* _laws and _sentinel_rules when that load began
    observed,        \* what a reader's queries returned, and when
    archiveReferences, \* LegislativeArchive._references
    queryArgs,       \* categories and context_tags of a query
    queryResult,     \* what get_laws returned
    referencesResult, \* what get_references returned
    invocations,     \* the run_compliance_cycle invocations on one engine
    collaborators,   \* the answers of that engine's sentinel, judge and reviser
    evalArgs,        \* draft and laws of a ConstitutionalJudge.evaluate call
    llmAnswer,       \* what client.structured_output does when called
    evalOutcome,     \* what evaluate did
    llmCalls,        \* calls of client.structured_output
    cycleOutcome,    \* where a cycle on this judge goes after its evaluation
    view             \* a list a query returned to a caller, and what followed

guardVars == <<sentinelRulesArg, sentinelActive, checkArgs, checkOutcome>>

loadVars == <<archiveSentinelRules, archiveVersion, loadArg, loadOutcome, loadCount>>

reloadVars == <<reloadPc, loadedLocals, preLoad, observed>>

queryVars == <<archiveReferences, queryArgs, queryResult, referencesResult>>

pairVars == <<invocations, collaborators>>

judgeVars == <<evalArgs, llmAnswer, evalOutcome, llmCalls, cycleOutcome>>

viewVars == <<view>>

vars == <<pc, args, sentinelScript, archiveLaws, archiveRaises, judgeScript,
          reviseScript, calls, active_laws, critique, trace, error, guardVars, loadVars,
          reloadVars, queryVars, pairVars, judgeVars, viewVars>>

env == <<args, sentinelScript, archiveLaws, archiveRaises, judgeScript, reviseScript,
         guardVars, loadVars, reloadVars, queryVars, pairVars, judgeVars, viewVars>>

NoTrace == [status |-> "NoTrace"]

NoError == [kind |-> "none"]

NoCritique == [violation |-> FALSE, article_id |-> "Unassigned"]

\* status is a field no statement of run_compliance_cycle assigns
Unset == "Unset"

CallsOf(op) == SelectSeq(calls, LAMBDA c : c.op = op)

NumCalls(op) == Len(CallsOf(op))

(* ---------------- utils/diff.py ---------------- *)

\* compute_unified_diff: None when the line lists are equal, which for
\* splitlines(keepends=True) is when the texts are equal; otherwise the diff
\* text, which is determined by the two texts
compute_unified_diff(original, revised) ==
    IF original = revised
    THEN None
    ELSE Some([fromfile |-> "original", tofile |-> "revised",
               minus |-> original, plus |-> revised])

(* ---------------- archive.py ---------------- *)

get_laws_SubsetMatch(laws, categories, context_tags) ==
    LET byCategory ==
            IF categories.given /\ categories.value # <<>>
            THEN SelectSeq(laws, LAMBDA law : law.category \in SeqToSet(categories.value))
            ELSE laws
    IN  IF context_tags.given
        THEN SelectSeq(byCategory,
                       LAMBDA law : SeqToSet(law.tags) \subseteq SeqToSet(context_tags.value))
        ELSE byCategory

get_laws_FirstTagOnly(laws, categories, context_tags) ==
    LET byCategory ==
            IF categories.given /\ categories.value # <<>>
            THEN SelectSeq(laws, LAMBDA law : law.category \in SeqToSet(categories.value))
            ELSE laws
    IN  IF context_tags.given
        THEN SelectSeq(byCategory,
                       LAMBDA law : \/ law.tags = <<>>
                                    \/ /\ context_tags.value # <<>>
                                       /\ context_tags.value[1] \in SeqToSet(law.tags))
        ELSE byCategory

get_laws_EmptyContextAsNone(laws, categories, context_tags) ==
    LET byCategory ==
            IF categories.given /\ categories.value # <<>>
            THEN SelectSeq(laws, LAMBDA law : law.category \in SeqToSet(categories.value))
            ELSE laws
    IN  IF context_tags.given /\ context_tags.value # <<>>
        THEN SelectSeq(byCategory,
                       LAMBDA law : \/ law.tags = <<>>
                                    \/ SeqToSet(law.tags) \cap SeqToSet(context_tags.value) # {})
        ELSE byCategory

\* LegislativeArchive.get_laws(categories, context_tags)
get_laws(laws, categories, context_tags) ==
    LET byCategory ==
            IF categories.given /\ categories.value # <<>>
            THEN SelectSeq(laws, LAMBDA law : law.category \in SeqToSet(categories.value))
            ELSE laws
    IN  IF context_tags.given
        THEN SelectSeq(byCategory,
                       LAMBDA law : \/ law.tags = <<>>
                                    \/ SeqToSet(law.tags) \cap SeqToSet(context_tags.value) # {})
        ELSE byCategory

(* ---------------- core.py ---------------- *)

\* ConstitutionalTrace(input_draft=..., critique=..., revised_output=..., delta=...)
ConstitutionalTrace(input_draft, crit, revised_output, delta) ==
    [status |-> Unset, input_draft |-> input_draft, critique |-> crit,
     revised_output |-> revised_output, delta |-> delta, history |-> <<>>]

SentinelTrace_EchoDraft(draft_response, message) ==
    LET reason == IF message = "" THEN UnknownViolation ELSE message
    IN  ConstitutionalTrace(draft_response,
                            Critique(TRUE, SENTINEL_BLOCK, "Critical", reason),
                            draft_response, None)

\* the refusal trace of the sentinel branch
SentinelTrace(draft_response, message) ==
    LET reason == IF message = "" THEN UnknownViolation ELSE message
    IN  ConstitutionalTrace(draft_response,
                            Critique(TRUE, SENTINEL_BLOCK, "Critical", reason),
                            reason, None)

\* the trace of the happy path
ApprovedTrace(draft_response, crit) ==
    ConstitutionalTrace(draft_response, crit, draft_response, None)

RevisionTrace_SyntheticCritique(draft_response, crit, revised_output) ==
    ConstitutionalTrace(draft_response,
                        Critique(TRUE, "SYSTEM_ERROR", "Critical", "Revision"),
                        revised_output,
                        compute_unified_diff(draft_response, revised_output))

\* the trace after the revision step
RevisionTrace(draft_response, crit, revised_output) ==
    ConstitutionalTrace(draft_response, crit, revised_output,
                        compute_unified_diff(draft_response, revised_output))

(* ---------------- the Sentinel (Guard) ---------------- *)

\* SentinelRule(id, pattern, exempt_groups); the description plays no part
SentinelRule(id, pattern, exempt_groups) ==
    [id |-> id, pattern |-> pattern, exempt_groups |-> exempt_groups]

\* the patterns of the model; "[" does not compile
Patterns == {"bad", "sudo", "["}

\* re.compile(pattern) succeeds
PatternValid(pattern) == pattern # "["

Contents == {"This is bad", "sudo reboot", "Line 1\nSUDO is bad", "Select * from users"}

\* compiled.search(content), case-insensitive and per line
Matches(pattern, content) ==
    \/ pattern = "bad" /\ content \in {"This is bad", "Line 1\nSUDO is bad"}
    \/ pattern = "sudo" /\ content \in {"sudo reboot", "Line 1\nSUDO is bad"}

ExemptGroupSets == {{}, {"admins"}}

\* user contexts: none, or the groups of the user
Actors == {None, Some({"admins", "staff"}), Some({"staff"})}

\* the rule at position i of a list carries the id SR.i
RuleIds == <<"SR.1", "SR.2", "SR.3", "SR.4">>

RuleLists ==
    UNION {{[i \in 1..n |-> SentinelRule(RuleIds[i], f[i][1], f[i][2])] :
                f \in [1..n -> Patterns \X ExemptGroupSets]} : n \in 0..MaxRules}

\* raise SecurityException naming the rule
Blocks(rule_id) == [kind |-> "raise", cls |-> "SecurityException", rule_id |-> rule_id]

NoOutcome == [kind |-> "none"]

RECURSIVE CompileFrom(_, _)
\* the constructor's loop: a rule whose pattern does not compile is logged and left out
CompileFrom(rules, i) ==
    IF i > Len(rules) THEN <<>>
    ELSE IF PatternValid(rules[i].pattern)
         THEN <<rules[i]>> \o CompileFrom(rules, i + 1)
         ELSE CompileFrom(rules, i + 1)

RECURSIVE CompileUntilInvalid(_, _)
CompileUntilInvalid(rules, i) ==
    IF i > Len(rules) THEN <<>>
    ELSE IF PatternValid(rules[i].pattern)
         THEN <<rules[i]>> \o CompileUntilInvalid(rules, i + 1)
         ELSE <<>>

Sentinel_StopAtInvalid(rules) == CompileUntilInvalid(rules, 1)

\* Sentinel(rules)
Sentinel(rules) == CompileFrom(rules, 1)

\* the user context exempts the user from the rule
Exempt(rule, actor) == actor.given /\ (actor.value \cap rule.exempt_groups) # {}

RECURSIVE CheckFrom(_, _, _, _)
\* the loop of check: rules in order, a match the user is exempt from is
\* bypassed, the first other match raises
CheckFrom(rules, i, content, actor) ==
    IF i > Len(rules) THEN Returns("None")
    ELSE IF Matches(rules[i].pattern, content)
         THEN IF Exempt(rules[i], actor)
              THEN CheckFrom(rules, i + 1, content, actor)
              ELSE Blocks(rules[i].id)
         ELSE CheckFrom(rules, i + 1, content, actor)

RECURSIVE CheckLastFrom(_, _, _, _, _)
CheckLastFrom(rules, i, content, actor, found) ==
    IF i > Len(rules) THEN found
    ELSE IF Matches(rules[i].pattern, content) /\ ~Exempt(rules[i], actor)
         THEN CheckLastFrom(rules, i + 1, content, actor, Blocks(rules[i].id))
         ELSE CheckLastFrom(rules, i + 1, content, actor, found)

check_LastMatch(rules, content, actor) ==
    CheckLastFrom(rules, 1, content, actor, Returns("None"))

RECURSIVE CheckGlobalFrom(_, _, _, _)
CheckGlobalFrom(rules, i, content, actor) ==
    IF i > Len(rules) THEN Returns("None")
    ELSE IF Matches(rules[i].pattern, content)
         THEN IF Exempt(rules[i], actor)
              THEN Returns("None")
              ELSE Blocks(rules[i].id)
         ELSE CheckGlobalFrom(rules, i + 1, content, actor)

check_GlobalExemption(rules, content, actor) == CheckGlobalFrom(rules, 1, content, actor)

\* Sentinel.check(content, user_context)
check(rules, content, actor) == CheckFrom(rules, 1, content, actor)

\* no Sentinel is being constructed or called
GuardIdle ==
    /\ sentinelRulesArg = <<>>
    /\ sentinelActive = None
    /\ checkArgs = [content |-> "Select * from users", actor |-> None]
    /\ checkOutcome = NoOutcome

\* no compliance cycle is running
CycleIdle ==
    /\ pc = "idle"
    /\ args = [input_prompt |-> "prompt", draft_response |-> "Plan A",
               context_tags |-> None, max_retries |-> None]
    /\ sentinelScript = Returns("None")
    /\ archiveRaises = FALSE
    /\ judgeScript = [k \in 1..ScriptLen |-> Returns(CritiqueCompliant)]
    /\ reviseScript = [k \in 1..ScriptLen |-> Returns("The sky is blue")]
    /\ calls = <<>>
    /\ active_laws = <<>>
    /\ critique = NoCritique
    /\ trace = NoTrace
    /\ error = NoError

cycleVars == <<pc, args, sentinelScript, archiveRaises, judgeScript, reviseScript,
               calls, active_laws, critique, trace, error>>

\* loaded_laws and loaded_sentinel_rules before the loop
NoLocals == [laws |-> <<>>, sentinel_rules |-> <<>>]

\* no load runs beside a reader
ReloadIdle ==
    /\ reloadPc = "idle"
    /\ loadedLocals = NoLocals
    /\ preLoad = NoLocals
    /\ observed = None

\* no query has been made
QueryIdle ==
    /\ archiveReferences = <<>>
    /\ queryArgs = None
    /\ queryResult = None
    /\ referencesResult = None

\* no judge has been called
JudgeIdle ==
    /\ evalArgs = None
    /\ llmAnswer = NoOutcome
    /\ evalOutcome = NoOutcome
    /\ llmCalls = 0
    /\ cycleOutcome = NoOutcome

\* no caller holds a returned list
ViewIdle == view = None

\* no engine serves several invocations
PairIdle ==
    /\ invocations = <<>>
    /\ collaborators = <<>>

\* no load has been called on the archive
LoadIdle ==
    /\ archiveSentinelRules = <<>>
    /\ archiveVersion = "0.0.0"
    /\ loadArg = None
    /\ loadOutcome = NoOutcome
    /\ loadCount = 0

GuardInit ==
    /\ CycleIdle
    /\ archiveLaws = <<>>
    /\ sentinelRulesArg \in RuleLists
    /\ sentinelActive = None
    /\ checkArgs \in [content : Contents, actor : Actors]
    /\ checkOutcome = NoOutcome
    /\ LoadIdle
    /\ ReloadIdle
    /\ QueryIdle
    /\ PairIdle
    /\ JudgeIdle
    /\ ViewIdle

\* sentinel = Sentinel(rules)
SentinelConstruct ==
    /\ sentinelActive = None
    /\ sentinelActive' = Some(Sentinel(sentinelRulesArg))
    /\ UNCHANGED <<cycleVars, archiveLaws, loadVars, reloadVars, queryVars, pairVars, judgeVars, viewVars,
                   sentinelRulesArg, checkArgs, checkOutcome>>

\* sentinel.check(content, user_context)
GuardCheck ==
    /\ sentinelActive.given
    /\ checkOutcome = NoOutcome
    /\ checkOutcome' = check(sentinelActive.value, checkArgs.content, checkArgs.actor)
    /\ UNCHANGED <<cycleVars, archiveLaws, loadVars, reloadVars, queryVars, pairVars, judgeVars, viewVars,
                   sentinelRulesArg, sentinelActive, checkArgs>>

GuardNext ==
    \/ SentinelConstruct
    \/ GuardCheck

GuardSpec == GuardInit /\ [][GuardNext]_vars

(* ---------------- archive.py: load_from_directory ---------------- *)

\* an element that fails the validation of Law(**item) or SentinelRule(**item)
InvalidItem == [invalid |-> TRUE]

RuleRed1 == SentinelRule("RED.1", "bad", {})

RuleRed2 == SentinelRule("RED.2", "sudo", {"admins"})

\* sentinel rules whose ids are also ids of laws
RuleNamedL3 == SentinelRule("L3", "bad", {})

RuleNamedL1 == SentinelRule("L1", "sudo", {})

\* an element with the fields of a law and those of a sentinel rule
AmbiguousItem ==
    [id |-> "AMBIG.1", category |-> "Universal", tags |-> <<>>, pattern |-> "bad",
     exempt_groups |-> {}]

\* parsed contents of a *.json file
ConstitutionFile(version, laws, sentinel_rules) ==
    [shape |-> "constitution", version |-> version, laws |-> laws,
     sentinel_rules |-> sentinel_rules]

ListFile(items) == [shape |-> "list", items |-> items]

DictFile(item) == [shape |-> "dict", item |-> item]

\* json.loads raises
UnparseableFile == [shape |-> "unparseable"]

\* valid JSON that is neither a dict nor a list
ScalarFile == [shape |-> "scalar"]

Files ==
    {ConstitutionFile("1.0.0", <<LawUniversal>>, <<RuleRed1>>),
     ConstitutionFile("2.0.0", <<LawDomain>>, <<RuleRed2>>),
     ConstitutionFile("3.0.0", <<>>, <<RuleRed1>>),
     ListFile(<<LawUniversal, LawTenant>>),
     ListFile(<<LawTenant, InvalidItem>>),
     ListFile(<<LawDomain, LawDomain>>),
     ListFile(<<AmbiguousItem>>),
     ListFile(<<LawUniversal, RuleRed1, LawDomain>>),
     ConstitutionFile("4.0.0", <<LawTenant>>, <<RuleNamedL3, RuleNamedL1>>),
     DictFile(LawDomain),
     UnparseableFile,
     ScalarFile}

\* what rglob("*.json") yields, in its order; None when the root does not exist
Directories ==
    {None} \cup {Some(d) : d \in UNION {[1..n -> Files] : n \in 0..MaxFiles}}

\* the texts by which the ValueError of lines 82-84 tells its cause
FailedToParse == "Failed to parse"

DuplicateLaw == "Failed to parse: Duplicate Law ID detected"

DuplicateSentinelRule == "Failed to parse: Duplicate Sentinel Rule ID detected"

\* raise ValueError(f"Failed to parse {file_path}: {e}"); id is the id the
\* text of a duplicate error names, "" otherwise
LoadError(msg, id) == [kind |-> "raise", cls |-> "ValueError", msg |-> msg, id |-> id]

\* Law(**item) validates: id, category and text are present (a model record
\* carries category for category and text); fields Law does not have are ignored
ValidLaw(item) == "category" \in DOMAIN item

\* SentinelRule(**item) validates: id, pattern and description are present
ValidSentinelRule(item) == "pattern" \in DOMAIN item

\* the Law that Law(**item) constructs
AsLaw(item) == Law(item.id, item.category, item.tags)

\* the SentinelRule that validation constructs
AsSentinelRule(item) == SentinelRule(item.id, item.pattern, item.exempt_groups)

LawsValid(items) == \A i \in 1..Len(items) : ValidLaw(items[i])

SentinelRulesValid(items) == \A i \in 1..Len(items) : ValidSentinelRule(items[i])

\* lines 34-60: parse one file into its new laws and rules
ParseFile(file) ==
    LET failed == [ok |-> FALSE, laws |-> <<>>, rules |-> <<>>, version |-> None]
    IN  CASE file.shape = "unparseable" -> failed
          [] file.shape = "constitution" ->
                IF LawsValid(file.laws) /\ SentinelRulesValid(file.sentinel_rules)
                THEN [ok |-> TRUE,
                      laws |-> [i \in 1..Len(file.laws) |-> AsLaw(file.laws[i])],
                      rules |-> [i \in 1..Len(file.sentinel_rules) |->
                                    AsSentinelRule(file.sentinel_rules[i])],
                      version |-> Some(file.version)]
                ELSE failed
          [] file.shape = "list" ->
                IF LawsValid(file.items)
                THEN [ok |-> TRUE,
                      laws |-> [i \in 1..Len(file.items) |-> AsLaw(file.items[i])],
                      rules |-> <<>>, version |-> None]
                ELSE failed
          [] file.shape = "dict" ->
                IF ValidLaw(file.item)
                THEN [ok |-> TRUE, laws |-> <<AsLaw(file.item)>>, rules |-> <<>>,
                      version |-> None]
                ELSE failed
          [] OTHER -> [ok |-> TRUE, laws |-> <<>>, rules |-> <<>>, version |-> None]

RECURSIVE AddAll_PerFile(_, _, _)
AddAll_PerFile(loaded, new, i) ==
    IF i > Len(new) THEN [ok |-> TRUE, items |-> loaded, id |-> ""]
    ELSE IF new[i].id \in {new[j].id : j \in 1..(i - 1)}
         THEN [ok |-> FALSE, items |-> loaded, id |-> new[i].id]
         ELSE AddAll_PerFile(Append(loaded, new[i]), new, i + 1)

RECURSIVE AddAll_Prepend(_, _, _)
AddAll_Prepend(loaded, new, i) ==
    IF i > Len(new) THEN [ok |-> TRUE, items |-> loaded, id |-> ""]
    ELSE IF new[i].id \in {loaded[j].id : j \in 1..Len(loaded)}
         THEN [ok |-> FALSE, items |-> loaded, id |-> new[i].id]
         ELSE AddAll_Prepend(<<new[i]>> \o loaded, new, i + 1)

RECURSIVE AddAll(_, _, _)
\* lines 63-69 and 72-78: append the new items, failing on an id already loaded
AddAll(loaded, new, i) ==
    IF i > Len(new) THEN [ok |-> TRUE, items |-> loaded, id |-> ""]
    ELSE IF new[i].id \in {loaded[j].id : j \in 1..Len(loaded)}
         THEN [ok |-> FALSE, items |-> loaded, id |-> new[i].id]
         ELSE AddAll(Append(loaded, new[i]), new, i + 1)

RECURSIVE LoadFrom(_, _, _)
\* lines 32-84: the loop over the files; acc holds loaded_laws,
\* loaded_sentinel_rules and the value of self._version
LoadFrom(files, i, acc) ==
    IF i > Len(files) THEN [ok |-> TRUE, laws |-> acc.laws, rules |-> acc.rules,
                            version |-> acc.version, error |-> NoOutcome]
    ELSE LET parsed == ParseFile(files[i])
             version == IF parsed.ok /\ parsed.version.given
                        THEN parsed.version.value ELSE acc.version
             withLaws == AddAll(acc.laws, parsed.laws, 1)
             withRules == AddAll(acc.rules, parsed.rules, 1)
             failed(e) == [ok |-> FALSE, laws |-> acc.laws, rules |-> acc.rules,
                           version |-> version, error |-> e]
         IN  IF ~parsed.ok THEN failed(LoadError(FailedToParse, ""))
             ELSE IF ~withLaws.ok THEN failed(LoadError(DuplicateLaw, withLaws.id))
             ELSE IF ~withRules.ok
                  THEN failed(LoadError(DuplicateSentinelRule, withRules.id))
             ELSE LoadFrom(files, i + 1, [laws |-> withLaws.items,
                                          rules |-> withRules.items,
                                          version |-> version])

load_from_directory_KeepPartial(archive, directory) ==
    IF ~directory.given
    THEN [archive |-> archive,
          outcome |-> Raises("FileNotFoundError", "Directory not found")]
    ELSE LET res == LoadFrom(directory.value, 1,
                             [laws |-> archive.laws, rules |-> archive.sentinel_rules,
                              version |-> archive.version])
         IN  [archive |-> [laws |-> res.laws, sentinel_rules |-> res.rules,
                           version |-> res.version],
              outcome |-> IF res.ok THEN Returns("None") ELSE res.error]

\* LegislativeArchive.load_from_directory: the archive after the call and
\* what the call did
load_from_directory(archive, directory) ==
    IF ~directory.given
    THEN [archive |-> archive,
          outcome |-> Raises("FileNotFoundError", "Directory not found")]
    ELSE LET res == LoadFrom(directory.value, 1,
                             [laws |-> <<>>, rules |-> <<>>, version |-> archive.version])
         IN  IF res.ok
             THEN [archive |-> [laws |-> res.laws, sentinel_rules |-> res.rules,
                                version |-> res.version],
                   outcome |-> Returns("None")]
             ELSE [archive |-> [archive EXCEPT !.version = res.version],
                   outcome |-> res.error]

\* LegislativeArchive.get_sentinel_rules
get_sentinel_rules(sentinel_rules) == sentinel_rules

\* LegislativeArchive()
ArchiveInit ==
    /\ CycleIdle
    /\ GuardIdle
    /\ archiveLaws = <<>>
    /\ LoadIdle
    /\ ReloadIdle
    /\ QueryIdle
    /\ PairIdle
    /\ JudgeIdle
    /\ ViewIdle

\* archive.load_from_directory(directory)
LoadFromDirectory ==
    /\ loadCount < MaxLoads
    /\ \E directory \in Directories :
          LET res == load_from_directory([laws |-> archiveLaws,
                                          sentinel_rules |-> archiveSentinelRules,
                                          version |-> archiveVersion], directory)
          IN  /\ archiveLaws' = res.archive.laws
              /\ archiveSentinelRules' = res.archive.sentinel_rules
              /\ archiveVersion' = res.archive.version
              /\ loadArg' = directory
              /\ loadOutcome' = res.outcome
    /\ loadCount' = loadCount + 1
    /\ UNCHANGED <<cycleVars, guardVars, reloadVars, queryVars, pairVars, judgeVars, viewVars>>

ArchiveNext == LoadFromDirectory

ArchiveSpec == ArchiveInit /\ [][ArchiveNext]_vars

(* ---------------- archive.py: a load beside a reader ---------------- *)

\* what the two queries of a reader return at one instant
Visible == [laws |-> get_laws(archiveLaws, None, None),
            sentinel_rules |-> get_sentinel_rules(archiveSentinelRules)]

\* LegislativeArchive() shared by a loading thread and a reading thread
ReloadInit ==
    /\ CycleIdle
    /\ GuardIdle
    /\ archiveLaws = <<>>
    /\ LoadIdle
    /\ ReloadIdle
    /\ QueryIdle
    /\ PairIdle
    /\ JudgeIdle
    /\ ViewIdle

\* lines 21-84: the root check and the loop over the files
ReloadBegin ==
    /\ reloadPc = "idle"
    /\ loadCount < MaxLoads
    /\ \E directory \in Directories :
          LET res == load_from_directory([laws |-> archiveLaws,
                                          sentinel_rules |-> archiveSentinelRules,
                                          version |-> archiveVersion], directory)
          IN  /\ loadArg' = directory
              /\ archiveVersion' = res.archive.version
              /\ preLoad' = Visible
              /\ IF res.outcome.kind = "raise"
                 THEN /\ loadOutcome' = res.outcome
                      /\ loadCount' = loadCount + 1
                      /\ UNCHANGED <<reloadPc, loadedLocals>>
                 ELSE /\ loadedLocals' = [laws |-> res.archive.laws,
                                          sentinel_rules |-> res.archive.sentinel_rules]
                      /\ reloadPc' = "line86"
                      /\ loadOutcome' = NoOutcome
                      /\ UNCHANGED loadCount
    /\ UNCHANGED <<cycleVars, guardVars, queryVars, pairVars, judgeVars, viewVars, archiveLaws,
                   archiveSentinelRules, observed>>

\* line 86: self._laws = loaded_laws
PublishLaws ==
    /\ reloadPc = "line86"
    /\ archiveLaws' = loadedLocals.laws
    /\ reloadPc' = "line87"
    /\ UNCHANGED <<cycleVars, guardVars, queryVars, pairVars, judgeVars, viewVars, loadVars, loadedLocals,
                   preLoad, observed>>

\* line 87: self._sentinel_rules = loaded_sentinel_rules, and the return
PublishSentinelRules ==
    /\ reloadPc = "line87"
    /\ archiveSentinelRules' = loadedLocals.sentinel_rules
    /\ reloadPc' = "idle"
    /\ loadOutcome' = Returns("None")
    /\ loadCount' = loadCount + 1
    /\ UNCHANGED <<cycleVars, guardVars, queryVars, pairVars, judgeVars, viewVars, archiveLaws, archiveVersion,
                   loadArg, loadedLocals, preLoad, observed>>

\* the reader calls get_laws() and get_sentinel_rules() back to back, no step
\* of the load between them
ReaderQueries ==
    /\ observed' = Some([seen |-> Visible,
                         pre |-> IF reloadPc = "idle" THEN Visible ELSE preLoad,
                         post |-> IF reloadPc = "idle" THEN Visible ELSE loadedLocals])
    /\ UNCHANGED <<cycleVars, guardVars, queryVars, pairVars, judgeVars, viewVars, archiveLaws, loadVars,
                   reloadPc, loadedLocals, preLoad>>

ReloadNext ==
    \/ ReloadBegin
    \/ PublishLaws
    \/ PublishSentinelRules
    \/ ReaderQueries

ReloadSpec == ReloadInit /\ [][ReloadNext]_vars

(* ---------------- archive.py: the queries ---------------- *)

\* a law whose tag differs from "t1" by case only
LawCase == Law("L4", "Tenant", <<"T1">>)

FilterArchives ==
    {<<>>, <<LawDomain>>, <<LawUniversal, LawDomain, LawTenant, LawCase>>,
     <<LawCase, LawTenant, LawUniversal>>}

\* "t3" is the tag of no law and of no reference
Tags == {"t1", "t2", "T1", "t3"}

TagLists == UNION {[1..n -> Tags] : n \in 0..MaxTags}

CategoryInputs ==
    {None, Some(<<>>), Some(<<"Tenant">>), Some(<<"Domain", "Universal">>),
     Some(<<"Tenant", "Tenant">>)}

Reference(id, tags) == [id |-> id, tags |-> tags]

ReferenceArchives ==
    {<<>>,
     <<Reference("U", <<>>), Reference("A", <<"t1">>), Reference("B", <<"t2">>),
       Reference("S", <<"t1", "t2">>)>>,
     <<Reference("C", <<"T1">>), Reference("U", <<>>)>>}

\* LegislativeArchive.get_references(context_tags): every reference when
\* context_tags is omitted, else the references without tags and those that
\* share a tag with context_tags
get_references(references, context_tags) ==
    IF ~context_tags.given THEN references
    ELSE SelectSeq(references,
                   LAMBDA ref : \/ Len(ref.tags) = 0
                                \/ \E i \in 1..Len(ref.tags) :
                                      \E j \in 1..Len(context_tags.value) :
                                          ref.tags[i] = context_tags.value[j])

\* a loaded archive and the arguments of one query
FilterInit ==
    /\ CycleIdle
    /\ GuardIdle
    /\ LoadIdle
    /\ ReloadIdle
    /\ PairIdle
    /\ JudgeIdle
    /\ ViewIdle
    /\ archiveLaws \in FilterArchives
    /\ archiveReferences \in ReferenceArchives
    /\ queryArgs \in [categories : CategoryInputs,
                      context_tags : {None} \cup {Some(t) : t \in TagLists}]
    /\ queryResult = None
    /\ referencesResult = None

\* archive.get_laws(categories, context_tags)
GetLaws ==
    /\ queryResult = None
    /\ queryResult' = Some(get_laws(archiveLaws, queryArgs.categories,
                                    queryArgs.context_tags))
    /\ UNCHANGED <<cycleVars, guardVars, loadVars, reloadVars, pairVars, judgeVars, viewVars, archiveLaws,
                   archiveReferences, queryArgs, referencesResult>>

\* archive.get_references(context_tags)
GetReferences ==
    /\ referencesResult = None
    /\ referencesResult' = Some(get_references(archiveReferences, queryArgs.context_tags))
    /\ UNCHANGED <<cycleVars, guardVars, loadVars, reloadVars, pairVars, judgeVars, viewVars, archiveLaws,
                   archiveReferences, queryArgs, queryResult>>

FilterNext ==
    \/ GetLaws
    \/ GetReferences

FilterSpec == FilterInit /\ [][FilterNext]_vars

(* ---------------- core.py: several invocations on one engine ---------------- *)

\* the arguments the interleaved invocations are called with
PairArgs ==
    {[input_prompt |-> "prompt", draft_response |-> "Plan A", context_tags |-> None],
     [input_prompt |-> "sudo reboot", draft_response |-> "Plan A", context_tags |-> None],
     [input_prompt |-> "prompt", draft_response |-> "The sky is green",
      context_tags |-> Some(<<>>)],
     [input_prompt |-> "prompt", draft_response |-> "Plan A", context_tags |-> Some(<<>>)]}

\* self.sentinel, self.judge and self.revision_engine: what each answers to
\* its input, the same at every call
Collaborators ==
    [sentinel : {[prompt \in {"prompt", "sudo reboot"} |->
                     IF prompt = "sudo reboot"
                     THEN Raises("SecurityException",
                                 "Security Protocol Violation: SR.1. Request denied.")
                     ELSE Returns("None")]},
     judge : [{"Plan A", "The sky is green"} ->
                 {Returns(CritiqueCompliant), Returns(CritiqueA),
                  Raises("Exception", "Judge Error")}],
     revise : [{"Plan A", "The sky is green"} ->
                  {Returns("The sky is blue"), Raises("Exception", "LLM Error")}]]

\* the frame of one run_compliance_cycle call: its arguments and locals
Invocation(a) ==
    [pc |-> "sentinel", args |-> a, active_laws |-> <<>>, critique |-> NoCritique,
     trace |-> NoTrace, error |-> NoError]

Returned(inv, t) == [inv EXCEPT !.pc = "returned", !.trace = t]

Raised(inv, e) == [inv EXCEPT !.pc = "raised", !.error = e]

\* run_compliance_cycle(a) run to its end with no other invocation beside it
CycleAlone(a) ==
    LET inv == Invocation(a)
        blocked == collaborators.sentinel[a.input_prompt]
        laws == get_laws(archiveLaws, None, a.context_tags)
        judged == collaborators.judge[a.draft_response]
        revised == collaborators.revise[a.draft_response]
        fetched == [inv EXCEPT !.active_laws = laws]
        criticised == [fetched EXCEPT !.critique = judged.value]
    IN  IF blocked.kind = "raise"
        THEN Returned(inv, SentinelTrace(a.draft_response, blocked.msg))
        ELSE IF judged.kind = "raise" THEN Raised(fetched, judged)
        ELSE IF ~judged.value.violation
             THEN Returned(criticised, ApprovedTrace(a.draft_response, judged.value))
        ELSE Returned(criticised,
                      RevisionTrace(a.draft_response, judged.value,
                                    IF revised.kind = "raise" THEN RevisionFailedMessage
                                    ELSE revised.value))

\* ConstitutionalSystem(archive, sentinel, judge, revision_engine) and the
\* calls that are about to run on it
PairInit ==
    /\ CycleIdle
    /\ GuardIdle
    /\ LoadIdle
    /\ ReloadIdle
    /\ QueryIdle
    /\ JudgeIdle
    /\ ViewIdle
    /\ archiveLaws = <<LawUniversal, LawDomain>>
    /\ collaborators \in Collaborators
    /\ invocations \in [1..NumInvocations -> {Invocation(a) : a \in PairArgs}]

pairFrame == <<cycleVars, guardVars, loadVars, reloadVars, queryVars, judgeVars,
               viewVars, archiveLaws, collaborators>>

\* 1. Sentinel Check, in invocation p
PairSentinelCheck(p) ==
    LET inv == invocations[p]
        answer == collaborators.sentinel[inv.args.input_prompt]
    IN  /\ inv.pc = "sentinel"
        /\ invocations' =
               [invocations EXCEPT ![p] =
                   IF answer.kind = "raise"
                   THEN Returned(inv, SentinelTrace(inv.args.draft_response, answer.msg))
                   ELSE [inv EXCEPT !.pc = "fetch"]]
        /\ UNCHANGED pairFrame

\* 2. Fetch Laws, in invocation p
PairFetchLaws(p) ==
    LET inv == invocations[p]
    IN  /\ inv.pc = "fetch"
        /\ invocations' =
               [invocations EXCEPT ![p] =
                   [inv EXCEPT !.pc = "judge",
                               !.active_laws = get_laws(archiveLaws, None,
                                                        inv.args.context_tags)]]
        /\ UNCHANGED pairFrame

PairJudgeEvaluation_SharedCritique(p) ==
    LET inv == invocations[p]
        answer == collaborators.judge[inv.args.draft_response]
    IN  /\ inv.pc = "judge"
        /\ invocations' =
               IF answer.kind = "raise"
               THEN [invocations EXCEPT ![p] = Raised(inv, answer)]
               ELSE [q \in DOMAIN invocations |->
                        IF q # p
                        THEN IF invocations[q].pc = "revise"
                             THEN [invocations[q] EXCEPT !.critique = answer.value]
                             ELSE invocations[q]
                        ELSE IF ~answer.value.violation
                             THEN Returned([inv EXCEPT !.critique = answer.value],
                                           ApprovedTrace(inv.args.draft_response,
                                                         answer.value))
                             ELSE [inv EXCEPT !.pc = "revise",
                                              !.critique = answer.value]]
        /\ UNCHANGED pairFrame

\* 3. Judge Evaluation, in invocation p
PairJudgeEvaluation(p) ==
    LET inv == invocations[p]
        answer == collaborators.judge[inv.args.draft_response]
    IN  /\ inv.pc = "judge"
        /\ invocations' =
               [invocations EXCEPT ![p] =
                   IF answer.kind = "raise" THEN Raised(inv, answer)
                   ELSE IF ~answer.value.violation
                        THEN Returned([inv EXCEPT !.critique = answer.value],
                                      ApprovedTrace(inv.args.draft_response, answer.value))
                        ELSE [inv EXCEPT !.pc = "revise", !.critique = answer.value]]
        /\ UNCHANGED pairFrame

\* 4. Revision, in invocation p
PairRevision(p) ==
    LET inv == invocations[p]
        answer == collaborators.revise[inv.args.draft_response]
        revised_output == IF answer.kind = "raise" THEN RevisionFailedMessage
                          ELSE answer.value
    IN  /\ inv.pc = "revise"
        /\ invocations' =
               [invocations EXCEPT ![p] =
                   Returned(inv, RevisionTrace(inv.args.draft_response, inv.critique,
                                               revised_output))]
        /\ UNCHANGED pairFrame

PairNext ==
    \E p \in 1..NumInvocations :
        \/ PairSentinelCheck(p)
        \/ PairFetchLaws(p)
        \/ PairJudgeEvaluation(p)
        \/ PairRevision(p)

PairSpec == PairInit /\ [][PairNext]_vars

(* ---------------- judge.py ---------------- *)

JudgeDrafts == {"", "  ", "flawed content"}

JudgeLaws == {<<>>, <<LawUniversal>>, <<LawUniversal, LawDomain>>}

\* client.structured_output(...): a Critique, or an exception
LLMAnswers ==
    {Returns(Critique(FALSE, "None", "Low", "Ok")),
     Returns(Critique(TRUE, "U.1", "High", "Violation found")),
     Returns(Critique(TRUE, "None", "High", "Bad stuff")),
     Returns(Critique(TRUE, "", "High", "Bad stuff")),
     Raises("Exception", "LLM down"),
     Raises("Exception", ""),
     Raises("BaseException", "Cancelled")}

\* f"System Error during evaluation: {str(e)}"
SystemErrorReasoning(msg) == "System Error during evaluation: " \o msg

evaluate_Propagate(draft, laws, llm) ==
    IF IsBlank(draft)
    THEN [outcome |-> Returns(Critique(FALSE, "None", "Low",
                                       "Draft is empty; no content to evaluate.")),
          llm_calls |-> 0]
    ELSE IF laws = <<>>
    THEN [outcome |-> Returns(Critique(FALSE, "None", "Low",
                                       "No laws provided for evaluation.")),
          llm_calls |-> 0]
    ELSE IF llm.kind = "raise" THEN [outcome |-> llm, llm_calls |-> 1]
    ELSE IF llm.value.violation /\ llm.value.article_id \in {"None", ""}
         THEN [outcome |-> Returns([llm.value EXCEPT !.article_id = "UNKNOWN"]),
               llm_calls |-> 1]
         ELSE [outcome |-> llm, llm_calls |-> 1]

evaluate_NoShortCircuit(draft, laws, llm) ==
    IF llm.kind = "raise"
    THEN IF llm.cls = "Exception"
         THEN [outcome |-> Returns(Critique(TRUE, "SYSTEM_ERROR", "Critical",
                                            SystemErrorReasoning(llm.msg))),
               llm_calls |-> 1]
         ELSE [outcome |-> llm, llm_calls |-> 1]
    ELSE IF llm.value.violation /\ llm.value.article_id \in {"None", ""}
         THEN [outcome |-> Returns([llm.value EXCEPT !.article_id = "UNKNOWN"]),
               llm_calls |-> 1]
         ELSE [outcome |-> llm, llm_calls |-> 1]

evaluate_KeepMissingId(draft, laws, llm) ==
    IF IsBlank(draft)
    THEN [outcome |-> Returns(Critique(FALSE, "None", "Low",
                                       "Draft is empty; no content to evaluate.")),
          llm_calls |-> 0]
    ELSE IF laws = <<>>
    THEN [outcome |-> Returns(Critique(FALSE, "None", "Low",
                                       "No laws provided for evaluation.")),
          llm_calls |-> 0]
    ELSE IF llm.kind = "raise"
    THEN IF llm.cls = "Exception"
         THEN [outcome |-> Returns(Critique(TRUE, "SYSTEM_ERROR", "Critical",
                                            SystemErrorReasoning(llm.msg))),
               llm_calls |-> 1]
         ELSE [outcome |-> llm, llm_calls |-> 1]
    ELSE [outcome |-> llm, llm_calls |-> 1]

\* ConstitutionalJudge.evaluate(draft, laws) over a client that answers llm:
\* what the call does and how often it called the client. An article_id of
\* "None" stands for None.
evaluate(draft, laws, llm) ==
    IF IsBlank(draft)
    THEN [outcome |-> Returns(Critique(FALSE, "None", "Low",
                                       "Draft is empty; no content to evaluate.")),
          llm_calls |-> 0]
    ELSE IF laws = <<>>
    THEN [outcome |-> Returns(Critique(FALSE, "None", "Low",
                                       "No laws provided for evaluation.")),
          llm_calls |-> 0]
    ELSE IF llm.kind = "raise"
    THEN IF llm.cls = "Exception"
         THEN [outcome |-> Returns(Critique(TRUE, "SYSTEM_ERROR", "Critical",
                                            SystemErrorReasoning(llm.msg))),
               llm_calls |-> 1]
         ELSE [outcome |-> llm, llm_calls |-> 1]
    ELSE IF llm.value.violation /\ llm.value.article_id \in {"None", ""}
         THEN [outcome |-> Returns([llm.value EXCEPT !.article_id = "UNKNOWN"]),
               llm_calls |-> 1]
         ELSE [outcome |-> llm, llm_calls |-> 1]

\* ConstitutionalJudge(llm_client) and the arguments of one call
JudgeInit ==
    /\ CycleIdle
    /\ GuardIdle
    /\ LoadIdle
    /\ ReloadIdle
    /\ QueryIdle
    /\ PairIdle
    /\ ViewIdle
    /\ archiveLaws = <<>>
    /\ evalArgs \in [draft : JudgeDrafts, laws : JudgeLaws]
    /\ llmAnswer \in LLMAnswers
    /\ evalOutcome = NoOutcome
    /\ llmCalls = 0
    /\ cycleOutcome = NoOutcome

judgeFrame == <<cycleVars, guardVars, loadVars, reloadVars, queryVars, pairVars, viewVars,
                archiveLaws, evalArgs, llmAnswer>>

\* judge.evaluate(draft, laws)
Evaluate ==
    /\ evalOutcome = NoOutcome
    /\ LET res == evaluate(evalArgs.draft, evalArgs.laws, llmAnswer)
       IN  /\ evalOutcome' = res.outcome
           /\ llmCalls' = llmCalls + res.llm_calls
    /\ UNCHANGED <<judgeFrame, cycleOutcome>>

\* core.py lines 93-103 on this judge, with evalArgs.laws as active_laws: the
\* approved trace, the judge's exception, or the revision phase
JudgeCycle ==
    /\ cycleOutcome = NoOutcome
    /\ LET res == evaluate(evalArgs.draft, evalArgs.laws, llmAnswer)
       IN  /\ cycleOutcome' =
                  IF res.outcome.kind = "raise" THEN res.outcome
                  ELSE IF ~res.outcome.value.violation
                       THEN Returns(ApprovedTrace(evalArgs.draft, res.outcome.value))
                       ELSE [kind |-> "revision", critique |-> res.outcome.value]
    /\ UNCHANGED <<judgeFrame, evalOutcome, llmCalls>>

JudgeNext ==
    \/ Evaluate
    \/ JudgeCycle

JudgeSpec == JudgeInit /\ [][JudgeNext]_vars

Init ==
    /\ pc = "call"
    /\ args \in [input_prompt : {"prompt"},
                 draft_response : Drafts,
                 context_tags : ContextTagInputs,
                 max_retries : {None} \cup {Some(n) : n \in 0..MaxRetriesArg}]
    /\ sentinelScript \in SentinelOutcomes
    /\ archiveLaws \in Archives
    /\ archiveRaises \in BOOLEAN
    /\ judgeScript \in Scripts(JudgeOutcomes)
    /\ reviseScript \in Scripts(ReviseOutcomes)
    /\ calls = <<>>
    /\ active_laws = <<>>
    /\ critique = NoCritique
    /\ trace = NoTrace
    /\ error = NoError
    /\ GuardIdle
    /\ LoadIdle
    /\ ReloadIdle
    /\ QueryIdle
    /\ PairIdle
    /\ JudgeIdle
    /\ ViewIdle

Return(t) ==
    /\ pc' = "returned"
    /\ trace' = t
    /\ error' = NoError

Propagate(e) ==
    /\ pc' = "raised"
    /\ trace' = NoTrace
    /\ error' = e

BindArguments_IgnoreExtra ==
    /\ pc = "call"
    /\ pc' = "sentinel"
    /\ UNCHANGED <<env, calls, active_laws, critique, trace, error>>

\* the call itself: the signature is (input_prompt, draft_response, context_tags);
\* a max_retries keyword is an unexpected keyword argument
BindArguments ==
    /\ pc = "call"
    /\ IF args.max_retries.given
       THEN Propagate(Raises("TypeError", "unexpected keyword argument 'max_retries'"))
       ELSE /\ pc' = "sentinel"
            /\ UNCHANGED <<trace, error>>
    /\ UNCHANGED <<env, calls, active_laws, critique>>

SentinelCheck_OnDraft ==
    /\ pc = "sentinel"
    /\ calls' = Append(calls, [op |-> "check", content |-> args.draft_response])
    /\ IF sentinelScript.kind = "raise"
       THEN Return(SentinelTrace(args.draft_response, sentinelScript.msg))
       ELSE /\ pc' = "fetch"
            /\ UNCHANGED <<trace, error>>
    /\ UNCHANGED <<env, active_laws, critique>>

\* 1. Sentinel Check
SentinelCheck ==
    /\ pc = "sentinel"
    /\ calls' = Append(calls, [op |-> "check", content |-> args.input_prompt])
    /\ IF sentinelScript.kind = "raise"
       THEN Return(SentinelTrace(args.draft_response, sentinelScript.msg))
       ELSE /\ pc' = "fetch"
            /\ UNCHANGED <<trace, error>>
    /\ UNCHANGED <<env, active_laws, critique>>

FetchLaws_FailOpen ==
    /\ pc = "fetch"
    /\ calls' = Append(calls, [op |-> "get_laws", context_tags |-> args.context_tags])
    /\ pc' = "judge"
    /\ active_laws' = IF archiveRaises THEN <<>>
                      ELSE get_laws(archiveLaws, None, args.context_tags)
    /\ UNCHANGED <<env, critique, trace, error>>

\* 2. Fetch Laws
FetchLaws ==
    /\ pc = "fetch"
    /\ calls' = Append(calls, [op |-> "get_laws", context_tags |-> args.context_tags])
    /\ IF archiveRaises
       THEN /\ Propagate(ArchiveFailure)
            /\ UNCHANGED active_laws
       ELSE /\ pc' = "judge"
            /\ active_laws' = get_laws(archiveLaws, None, args.context_tags)
            /\ UNCHANGED <<trace, error>>
    /\ UNCHANGED <<env, critique>>

JudgeEvaluation_ValidateCitation ==
    /\ pc = "judge"
    /\ LET k == NumCalls("evaluate") + 1
           answer == judgeScript[k]
           known == {active_laws[i].id : i \in 1..Len(active_laws)}
       IN  /\ calls' = Append(calls, [op |-> "evaluate", draft |-> args.draft_response,
                                       laws |-> active_laws])
           /\ IF answer.kind = "raise"
              THEN /\ Propagate(answer)
                   /\ UNCHANGED critique
              ELSE /\ critique' = IF answer.value.violation
                                     /\ answer.value.article_id \notin known
                                  THEN [answer.value EXCEPT !.article_id = "SYSTEM_ERROR"]
                                  ELSE answer.value
                   /\ IF ~answer.value.violation
                      THEN Return(ApprovedTrace(args.draft_response, answer.value))
                      ELSE /\ pc' = "revise"
                           /\ UNCHANGED <<trace, error>>
    /\ UNCHANGED <<env, active_laws>>

\* 3. Judge Evaluation
JudgeEvaluation ==
    /\ pc = "judge"
    /\ LET k == NumCalls("evaluate") + 1
           answer == judgeScript[k]
       IN  /\ calls' = Append(calls, [op |-> "evaluate", draft |-> args.draft_response,
                                       laws |-> active_laws])
           /\ IF answer.kind = "raise"
              THEN /\ Propagate(answer)
                   /\ UNCHANGED critique
              ELSE /\ critique' = answer.value
                   /\ IF ~answer.value.violation
                      THEN Return(ApprovedTrace(args.draft_response, answer.value))
                      ELSE /\ pc' = "revise"
                           /\ UNCHANGED <<trace, error>>
    /\ UNCHANGED <<env, active_laws>>

Revision_PromptAsDraft ==
    /\ pc = "revise"
    /\ LET k == NumCalls("revise") + 1
           answer == reviseScript[k]
       IN  /\ calls' = Append(calls, [op |-> "revise", draft |-> args.input_prompt,
                                       critique |-> critique, laws |-> active_laws])
           /\ IF answer.kind = "raise" /\ answer.cls = "BaseException"
              THEN Propagate(answer)
              ELSE LET revised_output ==
                           IF answer.kind = "raise" THEN RevisionFailedMessage
                           ELSE answer.value
                   IN  Return(RevisionTrace(args.draft_response, critique, revised_output))
    /\ UNCHANGED <<env, active_laws, critique>>

\* 4. Revision Loop (Single Turn) and 5. Compute Diff
Revision_RefetchLaws ==
    /\ pc = "revise"
    /\ LET k == NumCalls("revise") + 1
           answer == reviseScript[k]
       IN  /\ calls' = Append(calls, [op |-> "revise", draft |-> args.draft_response,
                                       critique |-> critique,
                                       laws |-> get_laws(archiveLaws, None,
                                                         args.context_tags)])
           /\ IF answer.kind = "raise" /\ answer.cls = "BaseException"
              THEN Propagate(answer)
              ELSE LET revised_output ==
                           IF answer.kind = "raise" THEN RevisionFailedMessage
                           ELSE answer.value
                   IN  Return(RevisionTrace(args.draft_response, critique, revised_output))
    /\ UNCHANGED <<env, active_laws, critique>>

Revision ==
    /\ pc = "revise"
    /\ LET k == NumCalls("revise") + 1
           answer == reviseScript[k]
       IN  /\ calls' = Append(calls, [op |-> "revise", draft |-> args.draft_response,
                                       critique |-> critique, laws |-> active_laws])
           /\ IF answer.kind = "raise" /\ answer.cls = "BaseException"
              THEN Propagate(answer)
              ELSE LET revised_output ==
                           IF answer.kind = "raise" THEN RevisionFailedMessage
                           ELSE answer.value
                   IN  Return(RevisionTrace(args.draft_response, critique, revised_output))
    /\ UNCHANGED <<env, active_laws, critique>>

Next ==
    \/ BindArguments
    \/ SentinelCheck
    \/ FetchLaws
    \/ JudgeEvaluation
    \/ Revision

Spec == Init /\ [][Next]_vars

\* the invocation runs on a thread of its own: a step that can be taken is taken
FairSpec == Init /\ [][Next]_vars /\ WF_vars(Next)

(* ---------------- archive.py: a caller that keeps a returned list ---------------- *)

ViewRuleLists == {<<>>, <<RuleRed1>>, <<RuleRed1, RuleRed2>>}

\* what a caller does to a Python list it holds
ListMutations == {"append", "pop", "reverse"}

ForeignLaw == Law("L9", "Universal", <<>>)

ForeignRule == SentinelRule("RED.9", "rm -rf", {})

Reverse(list) == [i \in 1..Len(list) |-> list[Len(list) + 1 - i]]

\* list.append(item), list.pop() (an empty list stays empty), list.reverse()
Mutated(list, how, item) ==
    CASE how = "append" -> Append(list, item)
      [] how = "pop" -> IF list = <<>> THEN list ELSE SubSeq(list, 1, Len(list) - 1)
      [] OTHER -> Reverse(list)

\* get_laws returns filtered_laws, which is self._laws itself unless one of
\* the two comprehensions rebound it
ReturnsOwnList(categories, context_tags) ==
    /\ ~categories.given \/ categories.value = <<>>
    /\ ~context_tags.given

ViewQueries ==
    [op : {"get_laws"}, categories : CategoryInputs, context_tags : ContextTagInputs]
    \cup {[op |-> "get_sentinel_rules", categories |-> None, context_tags |-> None]}

Query(laws, sentinel_rules, q) ==
    IF q.op = "get_laws" THEN get_laws(laws, q.categories, q.context_tags)
    ELSE get_sentinel_rules(sentinel_rules)

ViewInit ==
    /\ CycleIdle
    /\ GuardIdle
    /\ ReloadIdle
    /\ QueryIdle
    /\ PairIdle
    /\ JudgeIdle
    /\ archiveLaws \in Archives
    /\ archiveSentinelRules \in ViewRuleLists
    /\ archiveVersion = "0.0.0"
    /\ loadArg = None
    /\ loadOutcome = NoOutcome
    /\ loadCount = 0
    /\ view = None

viewFrame ==
    <<cycleVars, guardVars, reloadVars, queryVars, pairVars, judgeVars, archiveVersion,
      loadArg, loadOutcome, loadCount>>

\* the caller queries the archive and keeps what it got; own tells whether
\* that is the archive's list object or a new list
ViewQuery ==
    /\ view = None
    /\ \E q \in ViewQueries :
          view' = Some([query |-> q,
                        returned |-> Query(archiveLaws, archiveSentinelRules, q),
                        own |-> (q.op = "get_sentinel_rules"
                                 \/ ReturnsOwnList(q.categories, q.context_tags)),
                        laws |-> archiveLaws,
                        sentinel_rules |-> archiveSentinelRules,
                        mutated |-> FALSE,
                        again |-> None])
    /\ UNCHANGED <<viewFrame, archiveLaws, archiveSentinelRules>>

\* the caller changes the list it holds; the archive's attribute is the same
\* object when own
CallerMutates ==
    /\ view.given
    /\ ~view.value.mutated
    /\ \E how \in ListMutations :
          LET v == view.value
              isLaws == v.query.op = "get_laws"
              list == Mutated(v.returned, how, IF isLaws THEN ForeignLaw ELSE ForeignRule)
          IN  /\ view' = Some([v EXCEPT !.returned = list, !.mutated = TRUE])
              /\ archiveLaws' = IF v.own /\ isLaws THEN list ELSE archiveLaws
              /\ archiveSentinelRules' =
                     IF v.own /\ ~isLaws THEN list ELSE archiveSentinelRules
    /\ UNCHANGED viewFrame

\* a query after the mutation
ViewRequery ==
    /\ view.given
    /\ view.value.mutated
    /\ ~view.value.again.given
    /\ \E q \in ViewQueries :
          view' = Some([view.value EXCEPT
                           !.again = Some([query |-> q,
                                           result |-> Query(archiveLaws,
                                                            archiveSentinelRules, q)])])
    /\ UNCHANGED <<viewFrame, archiveLaws, archiveSentinelRules>>

ViewNext ==
    \/ ViewQuery
    \/ CallerMutates
    \/ ViewRequery

ViewSpec == ViewInit /\ [][ViewNext]_vars

(* ---------------- core.py: a cycle beside a reload of the archive ---------------- *)

\* one caller, whose draft passes the Sentinel, and an archive that answers
SnapshotInit ==
    /\ Init
    /\ args.draft_response = "Plan A"
    /\ ~args.max_retries.given
    /\ sentinelScript = Returns("None")
    /\ ~archiveRaises

\* a load_from_directory on another thread reaches self._laws = loaded_laws:
\* the attribute is bound to the list the load built, the list it was bound to
\* is not written
ReloadCompletes ==
    /\ pc \in {"sentinel", "fetch", "judge", "revise"}
    /\ NumCalls("reload") < MaxLoads
    /\ \E loaded_laws \in Archives \ {archiveLaws} : archiveLaws' = loaded_laws
    /\ calls' = Append(calls, [op |-> "reload"])
    /\ UNCHANGED <<pc, args, sentinelScript, archiveRaises, judgeScript, reviseScript,
                   active_laws, critique, trace, error, guardVars, loadVars, reloadVars,
                   queryVars, pairVars, judgeVars, viewVars>>

SnapshotNext ==
    \/ Next
    \/ ReloadCompletes

SnapshotSpec == SnapshotInit /\ [][SnapshotNext]_vars

(* ---------------- vocabulary of the properties ---------------- *)

Done == pc \in {"returned", "raised"}

\* the retry budget of the call: the keyword when given, else the default
EffectiveMaxRetries ==
    IF args.max_retries.given THEN args.max_retries.value ELSE DefaultMaxRetries

\* sentinel.check was called and raised its SecurityException
SentinelBlocked == NumCalls("check") >= 1 /\ sentinelScript.kind = "raise"

\* the judge was called on the original draft and reported a violation
InitialViolation ==
    /\ NumCalls("evaluate") >= 1
    /\ judgeScript[1].kind = "return"
    /\ judgeScript[1].value.violation

\* the judge was called on the original draft and found it compliant
InitialCompliant ==
    /\ NumCalls("evaluate") >= 1
    /\ judgeScript[1].kind = "return"
    /\ ~judgeScript[1].value.violation

JudgeAlwaysViolation ==
    \A k \in 1..ScriptLen : judgeScript[k].kind = "return" /\ judgeScript[k].value.violation

JudgeNeverRaises == \A k \in 1..ScriptLen : judgeScript[k].kind = "return"

ReviserAlwaysText ==
    \A k \in 1..ScriptLen : reviseScript[k].kind = "return" /\ ~IsBlank(reviseScript[k].value)

\* the first revision attempt was made and failed: it raised or came back blank
FirstRevisionFailed ==
    /\ NumCalls("revise") >= 1
    /\ \/ reviseScript[1].kind = "raise"
       \/ reviseScript[1].kind = "return" /\ IsBlank(reviseScript[1].value)

\* the reason a sentinel block reports
SentinelReason == IF sentinelScript.msg = "" THEN UnknownViolation ELSE sentinelScript.msg

(* ---------------- C1 ---------------- *)

\* C1: when Guard.check raises its block error the cycle returns a Blocked
\* trace at once and neither the Evaluator nor the Reviser is ever invoked.
C1_GuardBlockShortCircuits ==
    SentinelBlocked =>
        /\ pc = "returned"
        /\ trace.status = "Blocked"
        /\ NumCalls("evaluate") = 0
        /\ NumCalls("revise") = 0

(* ---------------- C2 ---------------- *)

\* C2: with a judge that always reports a violation and a reviser that always
\* returns text, the cycle ends Blocked after exactly max_retries Reviser calls
\* and 1 + max_retries Evaluator calls, with len(history) = max_retries,
\* delta = none and the fixed refusal as revised_output.
C2_RetryExhaustion ==
    (Done /\ sentinelScript.kind = "return" /\ ~archiveRaises
          /\ JudgeAlwaysViolation /\ ReviserAlwaysText) =>
        /\ pc = "returned"
        /\ trace.status = "Blocked"
        /\ NumCalls("revise") = EffectiveMaxRetries
        /\ NumCalls("evaluate") = 1 + EffectiveMaxRetries
        /\ Len(trace.history) = EffectiveMaxRetries
        /\ trace.delta = None
        /\ trace.revised_output = RevisionFailedMessage

(* ---------------- C3 ---------------- *)

\* C3: when the first Reviser call raises or returns a blank string the loop is
\* aborted: no history entry, no further Evaluator or Reviser call, and a
\* Blocked trace with delta = none and empty history is returned.
C3_RevisionFailureAborts ==
    (Done /\ FirstRevisionFailed) =>
        /\ pc = "returned"
        /\ trace.status = "Blocked"
        /\ trace.delta = None
        /\ trace.history = <<>>
        /\ NumCalls("revise") = 1
        /\ NumCalls("evaluate") = 1

(* ---------------- C4 ---------------- *)

\* C4: when the revised draft is judged compliant on re-evaluation the cycle
\* returns status Revised with revised_output = that draft, delta =
\* unified_diff(original draft, that draft), critique = the original violating
\* critique and history = the iterations performed.
C4_RevisedDisposition ==
    (Done /\ InitialViolation /\ NumCalls("revise") >= 1
          /\ reviseScript[1].kind = "return" /\ ~IsBlank(reviseScript[1].value)
          /\ judgeScript[2].kind = "return" /\ ~judgeScript[2].value.violation) =>
        /\ pc = "returned"
        /\ trace.status = "Revised"
        /\ trace.revised_output = reviseScript[1].value
        /\ trace.delta = compute_unified_diff(args.draft_response, reviseScript[1].value)
        /\ trace.critique = judgeScript[1].value
        /\ trace.history = <<[input_draft |-> args.draft_response,
                              critique |-> judgeScript[1].value,
                              revised_output |-> reviseScript[1].value]>>

(* ---------------- C5 ---------------- *)

\* C5: when the initial evaluation reports no violation the cycle returns
\* status Approved with that critique, the draft unchanged, delta = none and
\* empty history; the Reviser is not invoked and the Evaluator exactly once.
C5_ApprovedDisposition ==
    InitialCompliant =>
        /\ pc = "returned"
        /\ trace.status = "Approved"
        /\ trace.critique = judgeScript[1].value
        /\ trace.revised_output = args.draft_response
        /\ trace.delta = None
        /\ trace.history = <<>>
        /\ NumCalls("revise") = 0
        /\ NumCalls("evaluate") = 1

(* ---------------- C6 ---------------- *)

C7_GuardBlockTrace ==
    SentinelBlocked =>
        /\ pc = "returned"
        /\ trace = [status |-> "Blocked",
                    input_draft |-> args.draft_response,
                    critique |-> Critique(TRUE, SENTINEL_BLOCK, "Critical", SentinelReason),
                    revised_output |-> SentinelReason,
                    delta |-> None,
                    history |-> <<>>]

(* ---------------- C8 ---------------- *)

\* C8: provided the Archive and the Evaluator do not raise, the cycle always
\* returns a trace and never raises; a guard match, a Reviser exception and a
\* blank revision are surfaced as a Blocked trace.
C8_BlockingNeverRaises ==
    (Done /\ ~archiveRaises /\ JudgeNeverRaises) =>
        /\ pc = "returned"
        /\ (SentinelBlocked \/ FirstRevisionFailed) => trace.status = "Blocked"

(* ---------------- C9 ---------------- *)

\* C9: when the Archive query raises, the error leaves run_compliance_cycle
\* uncaught: no trace is returned and neither Evaluator nor Reviser is invoked.
C9_ArchiveErrorPropagates ==
    (NumCalls("get_laws") >= 1 /\ archiveRaises) =>
        /\ pc = "raised"
        /\ error = ArchiveFailure
        /\ trace = NoTrace
        /\ NumCalls("evaluate") = 0
        /\ NumCalls("revise") = 0

\* the archive was queried, raised, and the cycle ended with its error
C9_Witness ==
    /\ NumCalls("get_laws") = 1
    /\ archiveRaises
    /\ pc = "raised"
    /\ error = ArchiveFailure

(* ---------------- C10 ---------------- *)

EvaluateReviseCalls == SelectSeq(calls, LAMBDA c : c.op \in {"evaluate", "revise"})

C12_HistoryChain ==
    (pc = "returned" /\ NumCalls("revise") >= 1
        /\ reviseScript[1].kind = "return" /\ ~IsBlank(reviseScript[1].value)) =>
        /\ Len(trace.history) = NumCalls("revise")
        /\ trace.history[1].input_draft = args.draft_response
        /\ trace.history[1].critique = judgeScript[1].value
        /\ trace.history[1].revised_output = reviseScript[1].value
        /\ \A i \in 2..Len(trace.history) :
              /\ trace.history[i].input_draft = trace.history[i - 1].revised_output
              /\ trace.history[i].critique = judgeScript[i].value

(* ---------------- C13 ---------------- *)

\* C13: Guard.check is called exactly once, on input_prompt, before any
\* Archive query; the Archive is queried before the first Evaluator call; the
\* Reviser is called only after an Evaluator call that reported a violation.
C13_PhaseOrder ==
    /\ NumCalls("check") <= 1
    /\ calls # <<>> => calls[1] = [op |-> "check", content |-> args.input_prompt]
    /\ pc = "returned" => NumCalls("check") = 1
    /\ \A i \in 1..Len(calls) :
          /\ calls[i].op = "evaluate" => \E j \in 1..(i - 1) : calls[j].op = "get_laws"
          /\ calls[i].op = "revise" =>
                LET before == SelectSeq(SubSeq(calls, 1, i - 1), LAMBDA c : c.op = "evaluate")
                IN  /\ Len(before) >= 1
                    /\ judgeScript[Len(before)].kind = "return"
                    /\ judgeScript[Len(before)].value.violation

\* a cycle that went through all four phases
C13_Witness ==
    /\ pc = "returned"
    /\ Len(calls) = 4
    /\ calls[4].op = "revise"

(* ---------------- C14 ---------------- *)

Contains(text, part) == part = "" \/ part = text

\* C15 as stated: the revised_output of a Guard-blocked trace never contains
\* the caller's draft, whatever the draft.
C15_GuardOutputOmitsDraft ==
    SentinelBlocked => ~Contains(trace.revised_output, args.draft_response)

\* C15 as amended: the revised_output of a Guard-blocked trace does not
\* contain the caller's draft unless the Guard's own reason contains it.
C15_GuardOutputOmitsForeignDraft ==
    (SentinelBlocked /\ ~Contains(SentinelReason, args.draft_response)) =>
        /\ pc = "returned"
        /\ ~Contains(trace.revised_output, args.draft_response)

\* a Guard-blocked trace for a draft that the Guard's reason does not contain
C15_Witness ==
    /\ SentinelBlocked
    /\ pc = "returned"
    /\ ~Contains(SentinelReason, args.draft_response)
    /\ trace.input_draft = args.draft_response

(* ---------------- C16 ---------------- *)

\* C16: when a Reviser call of the loop is cancelled (raises), the engine
\* aborts the loop and returns a Blocked trace instead of propagating.
C16_CancellationIsRevisionFailure ==
    (Done /\ NumCalls("revise") >= 1 /\ reviseScript[NumCalls("revise")].kind = "raise") =>
        /\ pc = "returned"
        /\ trace.status = "Blocked"

(* ---------------- C17 ---------------- *)

\* the rule at position i of the constructor's list matches the content of the
\* call and the user is not exempt from it
BlockingAt(i) ==
    /\ PatternValid(sentinelRulesArg[i].pattern)
    /\ Matches(sentinelRulesArg[i].pattern, checkArgs.content)
    /\ ~Exempt(sentinelRulesArg[i], checkArgs.actor)

\* C17: whenever check raises, the rule id it carries is that of the earliest
\* rule of the list that matches the content and is not exempt for the actor.
C17_FirstMatchReported ==
    checkOutcome.kind = "raise" =>
        \E i \in 1..Len(sentinelRulesArg) :
            /\ BlockingAt(i)
            /\ \A j \in 1..(i - 1) : ~BlockingAt(j)
            /\ checkOutcome.rule_id = sentinelRulesArg[i].id

\* check raised although a later rule blocks the content as well
C17_Witness ==
    /\ checkOutcome.kind = "raise"
    /\ \E i, j \in 1..Len(sentinelRulesArg) : i < j /\ BlockingAt(i) /\ BlockingAt(j)

(* ---------------- C18 ---------------- *)

\* the rule at position i of the constructor's list matches the content
MatchingAt(i) ==
    /\ PatternValid(sentinelRulesArg[i].pattern)
    /\ Matches(sentinelRulesArg[i].pattern, checkArgs.content)

\* C18: check returns normally iff every matching rule is one the actor is
\* exempt from (an actor is supplied and its groups meet the rule's
\* exempt_groups); an exempt match does not suppress a later rule, and without
\* an actor no rule is skipped.
C18_ExemptionIsRuleScoped ==
    checkOutcome.kind # "none" =>
        /\ checkOutcome.kind = "return" <=>
              \A i \in 1..Len(sentinelRulesArg) :
                  MatchingAt(i) =>
                      /\ checkArgs.actor.given
                      /\ (checkArgs.actor.value \cap sentinelRulesArg[i].exempt_groups) # {}
        /\ ~checkArgs.actor.given =>
              (checkOutcome.kind = "return" <=>
                  \A i \in 1..Len(sentinelRulesArg) : ~MatchingAt(i))

\* an exempt match came first and a later rule still blocked
C18_Witness ==
    /\ checkOutcome.kind = "raise"
    /\ Len(sentinelRulesArg) >= 2
    /\ MatchingAt(1)
    /\ Exempt(sentinelRulesArg[1], checkArgs.actor)
    /\ checkOutcome.rule_id = sentinelRulesArg[2].id

(* ---------------- C19 ---------------- *)

\* the rules of the constructor's list whose pattern compiles, in list order
ValidRules == SelectSeq(sentinelRulesArg, LAMBDA r : PatternValid(r.pattern))

\* C19: construction from a list with malformed patterns succeeds; the active
\* rules are the valid rules in their original order, and check answers as a
\* Sentinel built from the valid rules alone.
C19_MalformedRulesDropped ==
    /\ sentinelActive.given => sentinelActive.value = ValidRules
    /\ checkOutcome.kind # "none" =>
          checkOutcome = check(Sentinel(ValidRules), checkArgs.content, checkArgs.actor)

\* a Sentinel built from a list whose first rule is malformed blocked on a later rule
C19_Witness ==
    /\ sentinelActive.given
    /\ Len(sentinelRulesArg) >= 2
    /\ ~PatternValid(sentinelRulesArg[1].pattern)
    /\ checkOutcome.kind = "raise"

(* ---------------- C20 ---------------- *)

\* the laws and the sentinel rules a file holds, when all of them validate
FileLaws(file) ==
    CASE file.shape = "constitution" -> file.laws
      [] file.shape = "list" -> file.items
      [] file.shape = "dict" -> <<file.item>>
      [] OTHER -> <<>>

FileRules(file) == IF file.shape = "constitution" THEN file.sentinel_rules ELSE <<>>

\* two different places of the directory hold items with one id; itemLists
\* has the items of one kind, file by file
HasDuplicate(itemLists) ==
    \E f, g \in 1..Len(itemLists) :
        \E i \in 1..Len(itemLists[f]) : \E j \in 1..Len(itemLists[g]) :
            /\ <<f, i>> # <<g, j>>
            /\ itemLists[f][i].id = itemLists[g][j].id

\* a cause of load failure: missing root, unparseable file, an element that
\* fails validation, a duplicate id
DirectoryFaulty(directory) ==
    \/ ~directory.given
    \/ \E f \in 1..Len(directory.value) :
          \/ directory.value[f].shape = "unparseable"
          \/ ~LawsValid(FileLaws(directory.value[f]))
          \/ ~SentinelRulesValid(FileRules(directory.value[f]))
    \/ /\ \A f \in 1..Len(directory.value) :
             /\ LawsValid(FileLaws(directory.value[f]))
             /\ SentinelRulesValid(FileRules(directory.value[f]))
       /\ \/ HasDuplicate([f \in 1..Len(directory.value) |-> FileLaws(directory.value[f])])
          \/ HasDuplicate([f \in 1..Len(directory.value) |-> FileRules(directory.value[f])])

\* C20: a load raises exactly when the directory has a cause of failure, and
\* after a load that raised get_laws() and get_sentinel_rules() return what
\* they returned before the call.
C20_FailedLoadIsAllOrNothing ==
    [][loadCount' # loadCount =>
          /\ loadOutcome'.kind = "raise" <=> DirectoryFaulty(loadArg')
          /\ loadOutcome'.kind = "raise" =>
                /\ get_laws(archiveLaws', None, None) = get_laws(archiveLaws, None, None)
                /\ get_sentinel_rules(archiveSentinelRules') =
                       get_sentinel_rules(archiveSentinelRules)]_vars

\* a loaded archive after a load that failed on its second file
C20_Witness ==
    /\ loadCount = 2
    /\ loadOutcome.kind = "raise"
    /\ archiveLaws # <<>>
    /\ loadArg.given
    /\ Len(loadArg.value) = 2
    /\ ParseFile(loadArg.value[1]).ok
    /\ ParseFile(loadArg.value[1]).laws # <<>>
    /\ ParseFile(loadArg.value[1]).laws # archiveLaws

(* ---------------- C21 ---------------- *)

\* the elements of each file that validate as laws
LawLists(files) == [f \in 1..Len(files) |-> SelectSeq(FileLaws(files[f]), ValidLaw)]

\* the elements of each file that validate as sentinel rules
SentinelRuleLists(files) ==
    [f \in 1..Len(files) |-> SelectSeq(FileRules(files[f]), ValidSentinelRule)]

\* the ids that occur at two different places of the item lists
DuplicateIds(itemLists) ==
    UNION {{itemLists[f][i].id : i \in
               {i \in 1..Len(itemLists[f]) :
                   \E g \in 1..Len(itemLists) : \E j \in 1..Len(itemLists[g]) :
                       /\ <<f, i>> # <<g, j>>
                       /\ itemLists[f][i].id = itemLists[g][j].id}}
           : f \in 1..Len(itemLists)}

\* every file of the directory parses and every element validates
AllFilesValid(directory) ==
    /\ directory.given
    /\ \A f \in 1..Len(directory.value) : ParseFile(directory.value[f]).ok

C22_ReloadIsAtomicSwap ==
    observed.given => observed.value.seen \in {observed.value.pre, observed.value.post}

(* ---------------- C23 ---------------- *)

\* context matching as the claim words it
PassesContext(tags, context_tags) ==
    \/ ~context_tags.given
    \/ context_tags.given /\ context_tags.value = <<>> /\ tags = <<>>
    \/ /\ context_tags.given
       /\ context_tags.value # <<>>
       /\ \/ tags = <<>>
          \/ \E t \in SeqToSet(tags) : t \in SeqToSet(context_tags.value)

\* C23: without a category filter, a loaded law is returned by get_laws exactly
\* when context_tags is omitted, or the law has no tags, or context_tags is not
\* empty and shares a tag with the law (compared case-sensitively); the laws
\* come in the archive's order; a law without tags is always returned.
C23_ContextMatching ==
    queryResult.given /\ ~queryArgs.categories.given =>
        /\ queryResult.value =
               SelectSeq(archiveLaws,
                         LAMBDA law : PassesContext(law.tags, queryArgs.context_tags))
        /\ \A i \in 1..Len(archiveLaws) :
               archiveLaws[i].tags = <<>> => archiveLaws[i] \in SeqToSet(queryResult.value)

\* a query whose tags share one tag with a two-tag law and differ by case only
\* from the tag of another, over an archive holding both
C23_Witness ==
    /\ queryResult.given
    /\ ~queryArgs.categories.given
    /\ queryArgs.context_tags = Some(<<"t1">>)
    /\ LawTenant \in SeqToSet(queryResult.value)
    /\ LawCase \in SeqToSet(archiveLaws)
    /\ LawCase \notin SeqToSet(queryResult.value)

(* ---------------- C24 ---------------- *)

\* C24: when categories is given, the laws get_laws returns are exactly the
\* loaded laws whose category is among them and that pass context matching;
\* an empty categories list yields no laws.
C24_CategoriesFilter ==
    queryResult.given /\ queryArgs.categories.given =>
        queryResult.value =
            SelectSeq(archiveLaws,
                      LAMBDA law : /\ law.category \in SeqToSet(queryArgs.categories.value)
                                   /\ PassesContext(law.tags, queryArgs.context_tags))

(* ---------------- C25 ---------------- *)

\* C25: for tag lists T2 and T1 with set(T2) a subset of set(T1), every law
\* get_laws returns for T2 it returns for T1; tag lists with the same set of
\* elements return the same laws.
C25_MonotoneInTags ==
    queryResult.given /\ queryArgs.context_tags.given =>
        \A T2 \in TagLists :
            LET forT2 == get_laws(archiveLaws, queryArgs.categories, Some(T2))
                T1 == queryArgs.context_tags.value
            IN  /\ SeqToSet(T2) \subseteq SeqToSet(T1) =>
                       SeqToSet(forT2) \subseteq SeqToSet(queryResult.value)
                /\ SeqToSet(T2) = SeqToSet(T1) => forT2 = queryResult.value

\* a query with two different tags that returns a law for its second tag
C25_Witness ==
    /\ queryResult.given
    /\ queryArgs.context_tags = Some(<<"t3", "t2">>)
    /\ LawTenant \in SeqToSet(queryResult.value)
    /\ LawDomain \in SeqToSet(archiveLaws)
    /\ LawDomain \notin SeqToSet(queryResult.value)

(* ---------------- C26 ---------------- *)

RECURSIVE ConcatFrom(_, _)
\* the lists from the i-th on, one after the other
ConcatFrom(lists, i) ==
    IF i > Len(lists) THEN <<>> ELSE lists[i] \o ConcatFrom(lists, i + 1)

\* C27: after a load that returned, get_sentinel_rules returns the sentinel
\* rules of the loaded files, each once, file after file in the order the
\* files were processed and within a file in the order of its elements.
C27_SentinelRulesInLoadOrder ==
    loadCount >= 1 /\ loadOutcome.kind = "return" =>
        /\ get_sentinel_rules(archiveSentinelRules) =
               ConcatFrom(SentinelRuleLists(loadArg.value), 1)
        /\ \A i, j \in 1..Len(archiveSentinelRules) :
               archiveSentinelRules[i].id = archiveSentinelRules[j].id => i = j

\* a load of two files that both hold sentinel rules, one of them two
C27_Witness ==
    /\ loadOutcome.kind = "return"
    /\ Len(loadArg.value) = 2
    /\ FileRules(loadArg.value[1]) # <<>>
    /\ Len(FileRules(loadArg.value[2])) = 2
    /\ Len(archiveSentinelRules) = 3

(* ---------------- C28 ---------------- *)

\* C28: the engine asks the archive for the laws and for the references with
\* exactly the caller's context_tags and no category filter, and every
\* judge and reviser call of the cycle receives exactly the law list the
\* archive returned, and the reference list.
C28_ArchiveFilteringForwarded ==
    /\ \A i \in 1..Len(calls) :
          calls[i].op = "get_laws" =>
              /\ calls[i].context_tags = args.context_tags
              /\ "categories" \notin DOMAIN calls[i]
    /\ \A i \in 1..Len(calls) :
          calls[i].op \in {"evaluate", "revise"} =>
              /\ calls[i].laws = get_laws(archiveLaws, None, args.context_tags)
              /\ "references" \in DOMAIN calls[i]
    /\ NumCalls("evaluate") >= 1 => NumCalls("get_references") = 1

(* ---------------- C29 ---------------- *)

\* the judge's first critique reports a violation of an article that is not
\* among the laws the judge was given
CitesAbsentArticle ==
    /\ NumCalls("evaluate") >= 1
    /\ judgeScript[1].kind = "return"
    /\ judgeScript[1].value.violation
    /\ judgeScript[1].value.article_id \notin {active_laws[i].id : i \in 1..Len(active_laws)}

\* C29: a critique that cites an article absent from the supplied laws goes
\* to the reviser unchanged and is the critique of the returned trace; the
\* engine raises nothing of its own and the reviser is called as for a known id.
C29_CitationsNotValidated ==
    CitesAbsentArticle =>
        /\ critique = judgeScript[1].value
        /\ \A i \in 1..Len(calls) :
              calls[i].op = "revise" => calls[i].critique = judgeScript[1].value
        /\ pc = "returned" => /\ NumCalls("revise") = 1
                              /\ trace.critique = judgeScript[1].value
        /\ pc = "raised" => NumCalls("revise") = 1 /\ error = reviseScript[1]

\* a returned cycle whose judge cited article "A" while the laws it was given
\* are L1 and L2
C29_Witness ==
    /\ pc = "returned"
    /\ CitesAbsentArticle
    /\ judgeScript[1].value = CritiqueA
    /\ Len(active_laws) = 2
    /\ NumCalls("revise") = 1
    /\ trace.critique.article_id = "A"

(* ---------------- C30 ---------------- *)

\* C30: however the steps of the invocations on one engine interleave, each
\* invocation ends as it ends when run alone, with the same trace or the same
\* error, and once an invocation has ended no step of another changes its
\* trace.
C30_CyclesIndependent ==
    /\ [](\A p \in DOMAIN invocations :
             invocations[p].pc \in {"returned", "raised"} =>
                 invocations[p] = CycleAlone(invocations[p].args))
    /\ [][\A p \in DOMAIN invocations :
             invocations[p].pc \in {"returned", "raised"} =>
                 invocations'[p] = invocations[p]]_vars

\* an invocation that returned an approved trace while another, whose draft
\* the judge found in violation, waits for its revision
C30_Witness ==
    /\ invocations # <<>>
    /\ invocations[1].pc = "revise"
    /\ invocations[1].critique = CritiqueA
    /\ invocations[2].pc = "returned"
    /\ invocations[2].critique = CritiqueCompliant
    /\ invocations[2].args.context_tags # invocations[1].args.context_tags

(* ---------------- C31 ---------------- *)

\* C31: when the LLM call of evaluate raises an Exception, evaluate returns
\* a critique with violation true, article_id "SYSTEM_ERROR" and a non-empty
\* reasoning, and a cycle on this judge goes on to its revision phase.
C31_JudgeFailsClosed ==
    /\ llmAnswer.kind = "raise" /\ llmAnswer.cls = "Exception" /\ llmCalls = 1 =>
          /\ evalOutcome.kind = "return"
          /\ evalOutcome.value.violation
          /\ evalOutcome.value.article_id = "SYSTEM_ERROR"
          /\ evalOutcome.value.reasoning # ""
    /\ /\ llmAnswer.kind = "raise"
       /\ llmAnswer.cls = "Exception"
       /\ cycleOutcome # NoOutcome
       /\ ~IsBlank(evalArgs.draft)
       /\ evalArgs.laws # <<>>
       => cycleOutcome.kind = "revision"

\* an evaluation whose LLM call raised an exception with an empty message
C31_Witness ==
    /\ llmCalls = 1
    /\ llmAnswer = Raises("Exception", "")
    /\ evalOutcome.kind = "return"
    /\ cycleOutcome.kind = "revision"

(* ---------------- C33 ---------------- *)

C34_ViolationCarriesArticle ==
    evalOutcome.kind = "return" /\ evalOutcome.value.violation =>
        /\ evalOutcome.value.article_id \notin {"None", ""}
        /\ llmCalls = 1
        /\ evalOutcome.value.article_id =
               IF llmAnswer.kind = "raise" THEN "SYSTEM_ERROR"
               ELSE IF llmAnswer.value.article_id \in {"None", ""} THEN "UNKNOWN"
               ELSE llmAnswer.value.article_id

\* an evaluation whose LLM reported a violation with the empty string as id
C34_Witness ==
    /\ evalOutcome.kind = "return"
    /\ llmAnswer.kind = "return"
    /\ llmAnswer.value.violation
    /\ llmAnswer.value.article_id = ""
    /\ evalOutcome.value.article_id = "UNKNOWN"

(* ---------------- C32 ---------------- *)

\* the kind of an element by the fields it has
KindOf(item) ==
    IF "pattern" \in DOMAIN item THEN "GuardRule"
    ELSE IF "category" \in DOMAIN item THEN "Rule"
    ELSE "Reference"

\* the elements of a file, whatever its shape
Elements(file) ==
    CASE file.shape = "constitution" -> file.laws \o file.sentinel_rules
      [] file.shape = "list" -> file.items
      [] file.shape = "dict" -> <<file.item>>
      [] OTHER -> <<>>

AllElements(files) == ConcatFrom([f \in 1..Len(files) |-> Elements(files[f])], 1)

Ids(items) == [i \in 1..Len(items) |-> items[i].id]

\* every file parses as JSON and every element has an id that no other has
Resolvable(directory) ==
    /\ directory.given
    /\ \A f \in 1..Len(directory.value) : directory.value[f].shape # "unparseable"
    /\ LET all == AllElements(directory.value)
       IN  /\ \A i \in 1..Len(all) : "id" \in DOMAIN all[i]
           /\ \A i, j \in 1..Len(all) : all[i].id = all[j].id => i = j

\* C32: a load of files whose elements have ids of their own returns, the
\* elements with pattern are then the sentinel rules (also those that have
\* category as well) and the other elements with category are the laws, each
\* in the collection of its kind, in load order.
C32_KindResolvedStructurally ==
    [][loadCount' # loadCount /\ Resolvable(loadArg') =>
          LET all == AllElements(loadArg'.value)
          IN  /\ loadOutcome'.kind = "return"
              /\ Ids(archiveSentinelRules') =
                     Ids(SelectSeq(all, LAMBDA item : KindOf(item) = "GuardRule"))
              /\ Ids(archiveLaws') =
                     Ids(SelectSeq(all, LAMBDA item : KindOf(item) = "Rule"))]_vars

(* ---------------- C35 ---------------- *)

\* C35: in every returned trace the status is Approved exactly when the
\* top-level critique reports no violation, and a Revised or Blocked trace has
\* a top-level critique that reports a violation.
C35_StatusAgreesWithCritique ==
    pc = "returned" =>
        /\ trace.status = "Approved" <=> ~trace.critique.violation
        /\ trace.status \in {"Revised", "Blocked"} => trace.critique.violation

(* ---------------- C36 ---------------- *)

\* the Reviser was called and returned text, which the trace carries
RevisionReturned ==
    /\ pc = "returned"
    /\ NumCalls("revise") >= 1
    /\ reviseScript[1].kind = "return"

\* C36: a returned trace has the caller's draft as input_draft and at most
\* max_retries history entries; the trace of an approved draft has
\* revised_output = input_draft; the trace that carries a revision the Reviser
\* returned has a non-empty history whose last entry holds that revised_output.
C36_TraceFieldsConsistent ==
    pc = "returned" =>
        /\ trace.input_draft = args.draft_response
        /\ Len(trace.history) <= EffectiveMaxRetries
        /\ InitialCompliant => trace.revised_output = trace.input_draft
        /\ RevisionReturned =>
              /\ trace.history # <<>>
              /\ trace.revised_output = trace.history[Len(trace.history)].revised_output

(* ---------------- C37 ---------------- *)

\* C37: a load that raises leaves the archive's version as it was before
\* the call.
C37_FailedLoadKeepsVersion ==
    [][loadCount' # loadCount /\ loadOutcome'.kind = "raise" =>
          archiveVersion' = archiveVersion]_vars

(* ---------------- C38 ---------------- *)

\* C38: after a caller has added to, removed from or reordered a list that a
\* query returned, every query, filtered or not, returns what it would have
\* returned before the mutation.
C38_ReturnedListsAreViews ==
    (view.given /\ view.value.again.given) =>
        view.value.again.value.result =
            Query(view.value.laws, view.value.sentinel_rules, view.value.again.value.query)

(* ---------------- C39 ---------------- *)

\* C39: a cycle asks the Archive for its rules at most once, and has done so
\* before the Evaluator is called; every Evaluator and Reviser call of the
\* cycle is passed the list that query returned, whatever reloads of the
\* archive have completed in between.
C39_OneRuleSnapshot ==
    /\ [](/\ NumCalls("get_laws") <= 1
          /\ \A i \in 1..Len(calls) :
                calls[i].op \in {"evaluate", "revise"} =>
                    /\ \E j \in 1..(i - 1) : calls[j].op = "get_laws"
                    /\ calls[i].laws = active_laws)
    /\ [][NumCalls("get_laws") >= 1 => active_laws' = active_laws]_vars

\* a reload that changed what the query would return completed between the
\* evaluation and the revision
C39_Witness ==
    /\ pc = "returned"
    /\ \E i \in 1..Len(calls) :
          /\ calls[i].op = "evaluate"
          /\ i + 2 <= Len(calls)
          /\ calls[i + 1].op = "reload"
          /\ calls[i + 2].op = "revise"
          /\ calls[i + 2].laws = calls[i].laws
          /\ calls[i + 2].laws # get_laws(archiveLaws, None, args.context_tags)

====
